---- MODULE Spec2Model ----
(***************************************************************************)
(* The two services of arq_hibrida_node_microsservice.                     *)
(*                                                                         *)
(* Orders service: the create-order and cancel-order handlers, the         *)
(* retrying upstream call (fetchWithBackoff), the circuit breaker wrapped  *)
(* around callUserService with its cache fallback, and the AMQP consumer   *)
(* that fills the user cache.  Users service: the create and update        *)
(* handlers with their event publishing, and the broker connection made at *)
(* startup (connectWithRetry).                                             *)
(*                                                                         *)
(* Each request is one task; a task moves at its await points.  The        *)
(* consumer callback is a separate task.  JavaScript runs every            *)
(* synchronous stretch between two awaits atomically, so one action is one *)
(* such stretch.                                                           *)
(*                                                                         *)
(* Spec and SpecBreaker follow the orders service, SpecServices the        *)
(* handlers of both services with the broker between them, SpecConnect the *)
(* startup connection, and SpecTiming one upstream call in milliseconds.   *)
(***************************************************************************)
EXTENDS Integers, Sequences, FiniteSets, TLC

\* ---- bounds of the model --------------------------------------------------
MaxTasks == 1          \* requests in progress at the same time (Spec)
MaxCalls == 2          \* requests in progress at the same time (SpecBreaker)
MaxMsgs == 1           \* messages the broker delivers in one run
MaxFires == 2          \* fires (and failures) counted in the rolling window
MaxUserTasks == 1      \* requests of the users service in progress together
MaxTimedCalls == 2     \* upstream calls followed on the clock, one after another

\* ---- program constants ----------------------------------------------------
MAX_HTTP_RETRIES == 3
BASE_HTTP_RETRY_DELAY == 500
\* Math.floor(Math.random() * 200)
HTTP_JITTER_MS == 200
HTTP_TIMEOUT_MS == 2000
errorThresholdPercentage == 50
resetTimeout == 10000
\* amqp.js
MAX_RETRIES == 10
BASE_RETRY_DELAY_MS == 5000
\* Math.floor(Math.random() * 1000)
AMQP_JITTER_MS == 1000
\* breakerOptions.timeout
timeout == HTTP_TIMEOUT_MS * (MAX_HTTP_RETRIES + 1)

\* ROUTING_KEYS of common/events.js, and the key orders.q is bound with
USER_CREATED == "user.created"
USER_UPDATED == "user.updated"
ORDER_CREATED == "order.created"
ORDER_CANCELLED == "order.cancelled"
ROUTING_KEY_USER_CREATED == USER_CREATED

\* ---- value domains --------------------------------------------------------
Tasks == 1..MaxTasks
Calls == 1..MaxCalls
Ids == {"u_1", "u_9"}
Data == {"d1", "d2"}

\* What one attempt of fetch(url, {signal}) can produce: a response with a
\* status, the abort of the per-attempt timer, or a transport error.
Responses == {"r200", "r404", "r400", "r500"}
Outcomes == Responses \cup {"aborted", "neterr"}

StatusOf(o) ==
  CASE o = "r200" -> 200
    [] o = "r404" -> 404
    [] o = "r400" -> 400
    [] o = "r500" -> 500
    [] OTHER -> 0

\* The error object the try block of fetchWithBackoff raises for an outcome
\* ("none" when the attempt returns its response).
ErrorOf(o) ==
  CASE o = "aborted" -> "AbortError"
    [] o = "neterr" -> "FetchError"
    [] o \in Responses /\ StatusOf(o) >= 500 -> "Error5xx"
    [] OTHER -> "none"

Retryable(o) == ErrorOf(o) # "none"

\* resp.ok of node-fetch
RespOk(o) == StatusOf(o) >= 200 /\ StatusOf(o) < 300

\* Values that breaker.fire can resolve with.
NoUser == [kind |-> "none"]
UserRec(i, d) == [kind |-> "user", id |-> i, data |-> d]
ErrMarker(s) == [kind |-> "error", error |-> "usuario invalido", status |-> s]

\* Message contents the broker can deliver on orders.q.
Contents ==
  {[text |-> "object", id |-> i, data |-> d] : i \in Ids, d \in Data}
    \cup {[text |-> "null"], [text |-> "garbage"]}

\* JSON.parse(msg.content.toString()) followed by the read of user.id:
\* "ok" with the parsed user, or the exception that reaches the catch block.
ParseUser(c) ==
  CASE c.text = "object" -> [ok |-> TRUE, user |-> UserRec(c.id, c.data)]
    [] c.text = "null" -> [ok |-> FALSE, error |-> "TypeError"]
    [] OTHER -> [ok |-> FALSE, error |-> "SyntaxError"]

VARIABLES
  alive,       \* the orders process is running
  amqp,        \* "connecting" | "ready" | "failed": the startup IIFE
  queue,       \* messages delivered on orders.q, not yet handled
  delivered,   \* number of messages delivered so far
  acks,        \* number of ch.ack calls
  nacks,       \* number of ch.nack(msg, false, false) calls
  userCache,   \* the Map userCache: a function on the ids it holds
  breaker,     \* the opossum breaker: state, pendingClose, timer, stats
  req,         \* per request task: position and locals of the handler
  users,       \* table User of the users service: a function on its ids
  ureq,        \* per request task of the users service
  ualive,      \* the users process is running
  uamqp,       \* "connecting" | "ready" | "failed": its startup IIFE
  conn,        \* position and locals of connectWithRetry
  tm           \* one upstream call on the clock: fetchWithBackoff in time

\* The state of the orders process.
ordersVars == <<alive, amqp, queue, delivered, acks, nacks, userCache,
                breaker, req>>

\* The state outside the orders process and its requests.
outside == <<users, ureq, ualive, uamqp, conn, tm>>

vars == <<alive, amqp, queue, delivered, acks, nacks, userCache, breaker,
          req, users, ureq, ualive, uamqp, conn, tm>>

EmptyCache == [i \in {} |-> NoUser]

IdleReq ==
  [pc |-> "idle", userId |-> "-", retries |-> 0, attempts |-> 0,
   faults |-> 0, last |-> "none", resp |-> "none", thrown |-> "none",
   via |-> "none", user |-> NoUser, err |-> "none", order |-> FALSE,
   cancelled |-> FALSE, event |-> <<>>, replies |-> 0, status |-> 0]

\* ---- the state outside the orders process, at rest --------------------------
NoUsers == [i \in {} |-> "-"]
NoRequests == [u \in {} |-> "-"]

\* connectWithRetry after its first attempt connected.
ConnectedAtOnce ==
  [pc |-> "returned", retries |-> 0, attempts |-> 1, err |-> "none",
   delay |-> 0, thrown |-> "none"]

IdleTm ==
  [pc |-> "idle", ms |-> HTTP_TIMEOUT_MS, calls |-> 0, retries |-> 0,
   now |-> 0, delay |-> 0, timedOut |-> FALSE]

\* A users service that is up with its channel and serves no request, and no
\* call on the clock.
OutsideIdle ==
  /\ users = NoUsers
  /\ ureq = NoRequests
  /\ ualive = TRUE
  /\ uamqp = "ready"
  /\ conn = ConnectedAtOnce
  /\ tm = IdleTm

Init ==
  /\ alive = TRUE
  /\ amqp = "connecting"
  /\ queue = <<>>
  /\ delivered = 0
  /\ acks = 0
  /\ nacks = 0
  /\ userCache = EmptyCache
  /\ breaker = [state |-> "closed", pendingClose |-> FALSE,
                resetTimer |-> FALSE, fires |-> 0, failures |-> 0]
  /\ req = [t \in Tasks |-> IdleReq]
  /\ OutsideIdle

\* Promise continuations are microtasks: once a call has settled, the handler
\* that awaits it runs on to its next await or to its response before any
\* timer, socket or broker callback of the process is served.
Quiet == \A t \in DOMAIN req : req[t].pc \notin {"fired", "done"}

\* ---- startup IIFE ---------------------------------------------------------
CreateChannelOk ==
  /\ alive /\ Quiet /\ amqp = "connecting"
  /\ amqp' = "ready"
  /\ UNCHANGED <<alive, queue, delivered, acks, nacks, userCache, breaker,
                 req>>
  /\ UNCHANGED outside

CreateChannelFail ==
  /\ alive /\ Quiet /\ amqp = "connecting"
  /\ amqp' = "failed"
  /\ UNCHANGED <<alive, queue, delivered, acks, nacks, userCache, breaker,
                 req>>
  /\ UNCHANGED outside

\* ---- event consumer -------------------------------------------------------
\* The broker delivers a message on the bound queue (the channel reads its
\* socket only between two stretches of handler code).
Deliver(c) ==
  /\ alive /\ Quiet /\ amqp = "ready" /\ delivered < MaxMsgs
  /\ queue' = Append(queue, c)
  /\ delivered' = delivered + 1
  /\ UNCHANGED <<alive, amqp, acks, nacks, userCache, breaker, req>>
  /\ UNCHANGED outside

\* Variant: a repeated payload is taken for a conflict and its entry dropped.
CacheSetEvictOnRepeat(cache, id, user) ==
  IF id \in DOMAIN cache /\ cache[id] = user
    THEN [i \in (DOMAIN cache) \ {id} |-> cache[i]]
    ELSE [i \in (DOMAIN cache) \cup {id} |->
            IF i = id THEN user ELSE cache[i]]

\* userCache.set(id, user)
CacheSet(cache, id, user) ==
  [i \in (DOMAIN cache) \cup {id} |-> IF i = id THEN user ELSE cache[i]]

\* Variant: the catch block acknowledges the message as well.
ConsumeAckAlways ==
  /\ alive /\ Quiet /\ amqp = "ready" /\ queue # <<>>
  /\ LET p == ParseUser(Head(queue)) IN
       /\ userCache' = IF p.ok THEN CacheSet(userCache, p.user.id, p.user)
                               ELSE userCache
       /\ acks' = acks + 1
       /\ UNCHANGED nacks
  /\ queue' = Tail(queue)
  /\ UNCHANGED <<alive, amqp, delivered, breaker, req>>
  /\ UNCHANGED outside

\* The consume callback: parse the content, store the user under its id and
\* ack; when the parse or the read of user.id throws, nack without requeue.
Consume ==
  /\ alive /\ Quiet /\ amqp = "ready" /\ queue # <<>>
  /\ LET p == ParseUser(Head(queue)) IN
       IF p.ok
         THEN /\ userCache' = CacheSet(userCache, p.user.id, p.user)
              /\ acks' = acks + 1
              /\ UNCHANGED nacks
         ELSE /\ nacks' = nacks + 1
              /\ UNCHANGED <<userCache, acks>>
  /\ queue' = Tail(queue)
  /\ UNCHANGED <<alive, amqp, delivered, breaker, req>>
  /\ UNCHANGED outside

\* ---- circuit breaker (opossum) wrapped around callUserService ---------------
\* breaker = new opossum(callUserService, breakerOptions) with the library's
\* defaults for everything breakerOptions leaves out (volumeThreshold 0, no
\* errorFilter, a rolling window of 10 s).  fire() counts the call, fails fast
\* unless the breaker is CLOSED or a HALF_OPEN trial is pending, and otherwise
\* runs the action; a rejected or timed-out action is counted as a failure,
\* may open the breaker, and is answered through the fallback.

\* CircuitBreaker.open(): enter OPEN once; the 'open' event arms the reset timer.
open(b) ==
  IF b.state # "open"
    THEN [b EXCEPT !.state = "open", !.pendingClose = FALSE,
                   !.resetTimer = TRUE]
    ELSE b

\* CircuitBreaker.close(): clear the reset timer and enter CLOSED.
close(b) ==
  IF b.state # "closed"
    THEN [b EXCEPT !.state = "closed", !.pendingClose = FALSE,
                   !.resetTimer = FALSE]
    ELSE b

\* The 'success' listener: a success seen in HALF_OPEN closes the breaker.
onSuccess(b) == IF b.state = "halfOpen" THEN close(b) ELSE b

\* Variant: the threshold itself already opens the breaker.
ShouldOpenAtThreshold(b) ==
  \/ b.failures * 100 >= errorThresholdPercentage * b.fires
  \/ b.state = "halfOpen"

\* The opening rule of fail(): errorRate = failures / fires * 100 is compared
\* with errorThresholdPercentage by > ; a failure in HALF_OPEN always opens.
ShouldOpen(b) ==
  \/ b.failures * 100 > errorThresholdPercentage * b.fires
  \/ b.state = "halfOpen"

\* fail(): count the failure, then apply the opening rule.
fail(b) ==
  LET b1 == [b EXCEPT !.failures = @ + 1] IN
    IF ShouldOpen(b1) THEN open(b1) ELSE b1

\* Variant: only OPEN fails fast, so HALF_OPEN lets every call through.
RejectsOnlyOpen(b) == b.state = "open"

\* fire() fails fast when the breaker is not closed and no trial is pending.
Rejects(b) == b.state # "closed" /\ ~b.pendingClose

\* Variant: the fallback never finds the entry.
fallbackAlwaysMiss(cache, userId) ==
  [ok |-> FALSE, code |-> "SERVICE_UNAVAILABLE"]

\* Variant: the fallback returns userCache.get(userId) without the has() test,
\* so a missing entry resolves with undefined.
fallbackNoHasTest(cache, userId) ==
  IF userId \in DOMAIN cache
    THEN [ok |-> TRUE, value |-> cache[userId]]
    ELSE [ok |-> TRUE, value |-> NoUser]

\* breaker.fallback(async (userId) => ...): the cached user, or the
\* SERVICE_UNAVAILABLE error.
fallback(cache, userId) ==
  IF userId \in DOMAIN cache
    THEN [ok |-> TRUE, value |-> cache[userId]]
    ELSE [ok |-> FALSE, code |-> "SERVICE_UNAVAILABLE"]

\* The request record after fire settled through the fallback.
ViaFallback(r, cache) ==
  LET fb == fallback(cache, r.userId) IN
    IF fb.ok
      THEN [r EXCEPT !.pc = "fired", !.via = "fallback", !.user = fb.value]
      ELSE [r EXCEPT !.pc = "fired", !.via = "fallback", !.err = fb.code]

\* callUserService resolved with v: 'success' is emitted, fire resolves with v.
SettleSuccess(t, r, v) ==
  /\ breaker' = onSuccess(breaker)
  /\ req' = [req EXCEPT ![t] = [r EXCEPT !.pc = "fired", !.via = "action",
                                         !.user = v]]

\* callUserService rejected (or the breaker timeout fired): handleError calls
\* fail() and then the fallback.
SettleFailure(t, r) ==
  /\ breaker' = fail(breaker)
  /\ req' = [req EXCEPT ![t] = ViaFallback(r, userCache)]

\* Calls that passed the breaker and have not settled yet.
InFlight == {t \in DOMAIN req : req[t].pc \in {"fetching", "sleeping", "json"}}

\* The reset timer fires resetTimeout after 'open'.  Every call that passed
\* the breaker settles within breakerOptions.timeout of its start, and none
\* passes while OPEN, so with timeout < resetTimeout none is left by then.
ResetTimeout ==
  /\ alive /\ Quiet /\ breaker.state = "open" /\ breaker.resetTimer
  /\ (timeout < resetTimeout) => InFlight = {}
  /\ breaker' = [breaker EXCEPT !.state = "halfOpen", !.pendingClose = TRUE,
                                !.resetTimer = FALSE]
  /\ UNCHANGED <<alive, amqp, queue, delivered, acks, nacks, userCache,
                 req>>
  /\ UNCHANGED outside

\* The rolling window moves on: a fire or a failure counted in its oldest
\* bucket leaves the statistics (a bucket holding several goes in several
\* such steps).
RollWindow ==
  /\ alive /\ Quiet
  /\ \/ /\ breaker.fires > 0
        /\ breaker' = [breaker EXCEPT !.fires = @ - 1]
     \/ /\ breaker.failures > 0
        /\ breaker' = [breaker EXCEPT !.failures = @ - 1]
  /\ UNCHANGED <<alive, amqp, queue, delivered, acks, nacks, userCache,
                 req>>
  /\ UNCHANGED outside

\* ---- fetchWithBackoff -----------------------------------------------------
\* Variant: gives up one attempt early.
LastAttemptEarly(retries) == retries = MAX_HTTP_RETRIES - 2

\* Variant: the test never holds inside the loop.
LastAttemptLate(retries) == retries = MAX_HTTP_RETRIES

\* if (retries === MAX_HTTP_RETRIES - 1)
LastAttempt(retries) == retries = MAX_HTTP_RETRIES - 1

\* What "throw err" in the catch block raises: the catch parameter is named
\* error and no err is in scope, so evaluating err raises a ReferenceError.
ThrownOnLast(error) == "ReferenceError"

\* One attempt of the loop body, with everything that follows it up to the
\* next await: the response is returned to callUserService (which answers a
\* non-ok response with the error marker at once, or awaits resp.json()), or
\* the catch block throws on the last attempt, or it starts the backoff sleep
\* (the caught error is dropped there).
FetchAttempt(t) ==
  /\ alive /\ Quiet /\ req[t].pc = "fetching"
  /\ \E o \in Outcomes :
       LET r == [req[t] EXCEPT !.attempts = @ + 1] IN
         IF Retryable(o)
           THEN LET r1 == [r EXCEPT !.faults = @ + 1] IN
                  IF LastAttempt(r.retries)
                    THEN SettleFailure(t,
                           [r1 EXCEPT !.last = o,
                                      !.thrown = ThrownOnLast(ErrorOf(o))])
                    ELSE /\ req' = [req EXCEPT ![t] =
                                      [r1 EXCEPT !.pc = "sleeping"]]
                         /\ UNCHANGED breaker
           ELSE LET r1 == [r EXCEPT !.last = o, !.resp = o] IN
                  IF RespOk(o)
                    THEN /\ req' = [req EXCEPT ![t] =
                                      [r1 EXCEPT !.pc = "json"]]
                         /\ UNCHANGED breaker
                    ELSE SettleSuccess(t, r1, ErrMarker(StatusOf(o)))
  /\ UNCHANGED <<alive, amqp, queue, delivered, acks, nacks, userCache>>
  /\ UNCHANGED outside

\* The backoff sleep ends: retries++ and the loop condition.  When the loop
\* ends the function returns undefined and callUserService fails on resp.ok.
BackoffWake(t) ==
  /\ alive /\ Quiet /\ req[t].pc = "sleeping"
  /\ LET r == [req[t] EXCEPT !.retries = @ + 1] IN
       IF r.retries < MAX_HTTP_RETRIES
         THEN /\ req' = [req EXCEPT ![t] = [r EXCEPT !.pc = "fetching"]]
              /\ UNCHANGED breaker
         ELSE SettleFailure(t, [r EXCEPT !.resp = "undefined"])
  /\ UNCHANGED <<alive, amqp, queue, delivered, acks, nacks, userCache>>
  /\ UNCHANGED outside

\* Variant: the call path stores the fetched user in the cache.
RespJsonWriteThrough(t) ==
  /\ alive /\ Quiet /\ req[t].pc = "json"
  /\ \E d \in Data :
       /\ SettleSuccess(t, req[t], UserRec(req[t].userId, d))
       /\ userCache' = CacheSet(userCache, req[t].userId,
                                UserRec(req[t].userId, d))
  /\ UNCHANGED <<alive, amqp, queue, delivered, acks, nacks>>
  /\ UNCHANGED outside

\* await resp.json() in callUserService: the body parses to the upstream
\* record, or the read fails (bad body, broken stream, or the breaker timeout
\* elapsing first, since no per-attempt timer covers the body).
RespJson(t) ==
  /\ alive /\ Quiet /\ req[t].pc = "json"
  /\ \/ \E d \in Data : SettleSuccess(t, req[t], UserRec(req[t].userId, d))
     \/ SettleFailure(t, req[t])
  /\ UNCHANGED <<alive, amqp, queue, delivered, acks, nacks, userCache>>
  /\ UNCHANGED outside

\* Variant: the second publish block of a handler emits the event once more.
PublishedAlsoBySecondBlock(sent, key) ==
  IF sent THEN <<key, key>> ELSE <<>>

\* The events the publish block of a handler emits: one with the handler's
\* routing key when a channel exists and ch.publish does not throw ('sent'),
\* none otherwise.
Published(sent, key) == IF sent THEN <<key>> ELSE <<>>

\* ---- create-order handler: app.post('/') -----------------------------------
\* What becomes of a rejection that leaves the async handler: Express 4 never
\* sees it (the request stays unanswered, and Node either only warns or ends
\* the process on the unhandled rejection); Express 5 hands it to the default
\* error handler, which answers 500.
RejectionOutcomes == {"hang", "crash", "r500"}

HandlerRejects(t, r, o) ==
  /\ req' = [req EXCEPT ![t] =
               [r EXCEPT !.pc = "done",
                         !.replies = IF o = "r500" THEN @ + 1 ELSE @,
                         !.status = IF o = "r500" THEN 500 ELSE 0]]
  /\ alive' = (o # "crash")

\* Variant: the marker's status is ignored.
ErrorStatusAlways400(user) == 400

\* res.status(user.status || 400)
ErrorStatus(user) == IF user.status # 0 THEN user.status ELSE 400

\* The locals of callUserService and fetchWithBackoff are gone once fire has
\* settled and the handler has resumed.
DropCallLocals(r) ==
  [r EXCEPT !.retries = 0, !.attempts = 0, !.faults = 0, !.last = "none",
            !.resp = "none", !.thrown = "none", !.via = "none"]

\* A request whose body fails the field check is answered 400 at once.
PostInvalid(t) ==
  /\ alive /\ Quiet /\ req[t].pc = "idle"
  /\ t > 1 => req[t - 1].pc # "idle"
  /\ \E u \in Ids \cup {"-"} :
       req' = [req EXCEPT ![t] =
                 [@ EXCEPT !.pc = "done", !.userId = u, !.replies = @ + 1,
                           !.status = 400]]
  /\ UNCHANGED <<alive, amqp, queue, delivered, acks, nacks, userCache,
                 breaker>>
  /\ UNCHANGED outside

\* A valid request calls breaker.fire(userId): the fire is counted; an open
\* breaker (or a half-open one whose trial is taken) runs the fallback at
\* once; otherwise the trial flag is cleared and callUserService starts its
\* first attempt.
PostFire(t) ==
  /\ alive /\ Quiet /\ req[t].pc = "idle"
  /\ t > 1 => req[t - 1].pc # "idle"
  /\ breaker.fires < MaxFires /\ breaker.failures < MaxFires
  /\ \E u \in Ids :
       LET r == [req[t] EXCEPT !.userId = u]
           b == [breaker EXCEPT !.fires = @ + 1]
       IN IF Rejects(b)
            THEN /\ breaker' = b
                 /\ req' = [req EXCEPT ![t] = ViaFallback(r, userCache)]
            ELSE /\ breaker' = [b EXCEPT !.pendingClose = FALSE]
                 /\ req' = [req EXCEPT ![t] = [r EXCEPT !.pc = "fetching"]]
  /\ UNCHANGED <<alive, amqp, queue, delivered, acks, nacks, userCache>>
  /\ UNCHANGED outside

\* Variant: the handler does not test user.error.
AfterFireIgnoresMarker(t) ==
  /\ alive /\ req[t].pc = "fired"
  /\ LET r == DropCallLocals(req[t]) IN
       IF r.err # "none"
         THEN \E o \in RejectionOutcomes : HandlerRejects(t, r, o)
         ELSE /\ UNCHANGED alive
              /\ req' = [req EXCEPT ![t] = [r EXCEPT !.pc = "creating"]]
  /\ UNCHANGED <<amqp, queue, delivered, acks, nacks, userCache, breaker>>
  /\ UNCHANGED outside

\* The handler resumes after "await breaker.fire(userId)", which is outside
\* every try block: a rejection leaves the handler; an error marker is
\* answered with its status; otherwise prisma.order.create is started.
AfterFire(t) ==
  /\ alive /\ req[t].pc = "fired"
  /\ LET r == DropCallLocals(req[t]) IN
       IF r.err # "none"
         THEN \E o \in RejectionOutcomes : HandlerRejects(t, r, o)
         ELSE /\ UNCHANGED alive
              /\ IF r.user.kind = "error"
                   THEN req' = [req EXCEPT ![t] =
                                  [r EXCEPT !.pc = "done",
                                            !.replies = @ + 1,
                                            !.status = ErrorStatus(r.user)]]
                   ELSE req' = [req EXCEPT ![t] =
                                  [r EXCEPT !.pc = "creating"]]
  /\ UNCHANGED <<amqp, queue, delivered, acks, nacks, userCache, breaker>>
  /\ UNCHANGED outside

\* prisma.order.create settles.  On success the event is published when a
\* channel exists (a throwing publish is caught and logged) and 201 is
\* answered.  On failure the catch block evaluates err.code with no err in
\* scope, and the ReferenceError leaves the handler.
PrismaCreate(t) ==
  /\ alive /\ Quiet /\ req[t].pc = "creating"
  /\ \/ /\ \E sent \in {b \in BOOLEAN : b => amqp = "ready"} :
             req' = [req EXCEPT ![t] =
                       [@ EXCEPT !.pc = "done", !.order = TRUE,
                                 !.event = Published(sent, ORDER_CREATED),
                                 !.replies = @ + 1, !.status = 201]]
        /\ UNCHANGED alive
     \/ \E o \in RejectionOutcomes : HandlerRejects(t, req[t], o)
  /\ UNCHANGED <<amqp, queue, delivered, acks, nacks, userCache, breaker>>
  /\ UNCHANGED outside

\* The request is over (answered, or abandoned by its handler); its task
\* ends and a later request can take its place.
Finish(t) ==
  /\ alive /\ req[t].pc = "done"
  /\ req' = [req EXCEPT ![t] = IdleReq]
  /\ UNCHANGED <<alive, amqp, queue, delivered, acks, nacks, userCache,
                 breaker>>
  /\ UNCHANGED outside

Next ==
  \/ CreateChannelOk
  \/ CreateChannelFail
  \/ \E c \in Contents : Deliver(c)
  \/ Consume
  \/ ResetTimeout
  \/ RollWindow
  \/ \E t \in Tasks : PostInvalid(t)
  \/ \E t \in Tasks : PostFire(t)
  \/ \E t \in Tasks : FetchAttempt(t)
  \/ \E t \in Tasks : BackoffWake(t)
  \/ \E t \in Tasks : RespJson(t)
  \/ \E t \in Tasks : AfterFire(t)
  \/ \E t \in Tasks : PrismaCreate(t)
  \/ \E t \in Tasks : Finish(t)

Spec == Init /\ [][Next]_vars

\* ---- the call path under concurrent requests --------------------------------
\* The state after the channel is up and the consumer has applied MaxMsgs
\* deliveries of the user.created event of u_1: several requests then run
\* against a cache that holds u_1 and not u_9.
InitBreaker ==
  /\ alive = TRUE
  /\ amqp = "ready"
  /\ queue = <<>>
  /\ delivered = MaxMsgs
  /\ acks = MaxMsgs
  /\ nacks = 0
  /\ userCache = CacheSet(EmptyCache, "u_1", UserRec("u_1", "d1"))
  /\ breaker = [state |-> "closed", pendingClose |-> FALSE,
                resetTimer |-> FALSE, fires |-> 0, failures |-> 0]
  /\ req = [t \in Calls |-> IdleReq]
  /\ OutsideIdle

NextBreaker ==
  \/ ResetTimeout
  \/ RollWindow
  \/ \E t \in Calls : PostInvalid(t)
  \/ \E t \in Calls : PostFire(t)
  \/ \E t \in Calls : FetchAttempt(t)
  \/ \E t \in Calls : BackoffWake(t)
  \/ \E t \in Calls : RespJson(t)
  \/ \E t \in Calls : AfterFire(t)
  \/ \E t \in Calls : PrismaCreate(t)
  \/ \E t \in Calls : Finish(t)

SpecBreaker == InitBreaker /\ [][NextBreaker]_vars

TypeOK ==
  /\ alive \in BOOLEAN
  /\ breaker.state \in {"closed", "open", "halfOpen"}
  /\ breaker.fires \in 0..MaxFires
  /\ \A t \in DOMAIN req : req[t].attempts <= MAX_HTTP_RETRIES + 1

\* The shape of InitBreaker, as a predicate on the states of Spec: Spec
\* reaches it once the consumer has applied its deliveries.
InitBreakerShape ==
  /\ amqp = "ready" /\ queue = <<>> /\ delivered = MaxMsgs /\ acks = MaxMsgs
  /\ nacks = 0
  /\ userCache = CacheSet(EmptyCache, "u_1", UserRec("u_1", "d1"))
  /\ breaker.state = "closed" /\ breaker.fires = 0 /\ breaker.failures = 0
  /\ \A t \in DOMAIN req : req[t] = IdleReq

\* ---- cancel-order handler: app.delete('/:id') --------------------------------
\* The handler starts prisma.order.update at once; the id is not checked.
Cancel(t) ==
  /\ alive /\ Quiet /\ req[t].pc = "idle"
  /\ t > 1 => req[t - 1].pc # "idle"
  /\ req' = [req EXCEPT ![t] = [@ EXCEPT !.pc = "cancelling"]]
  /\ UNCHANGED <<alive, amqp, queue, delivered, acks, nacks, userCache,
                 breaker>>
  /\ UNCHANGED outside

\* prisma.order.update settles.  On success the event is published when a
\* channel exists (a throwing publish is caught and logged) and 200 is
\* answered.  On failure the catch block evaluates err.code with no err in
\* scope, and the ReferenceError leaves the handler.
PrismaCancel(t) ==
  /\ alive /\ Quiet /\ req[t].pc = "cancelling"
  /\ \/ /\ \E sent \in {b \in BOOLEAN : b => amqp = "ready"} :
             req' = [req EXCEPT ![t] =
                       [@ EXCEPT !.pc = "done", !.cancelled = TRUE,
                                 !.event = Published(sent, ORDER_CANCELLED),
                                 !.replies = @ + 1, !.status = 200]]
        /\ UNCHANGED alive
     \/ \E o \in RejectionOutcomes : HandlerRejects(t, req[t], o)
  /\ UNCHANGED <<amqp, queue, delivered, acks, nacks, userCache, breaker>>
  /\ UNCHANGED outside

\* ---- users service: app.post('/') and app.patch('/:id') ----------------------
UTasks == 1..MaxUserTasks

IdleUReq ==
  [pc |-> "idle", op |-> "none", id |-> "-", data |-> "-",
   committed |-> FALSE, event |-> <<>>, replies |-> 0, status |-> 0]

\* As Quiet, for the users process.
UQuiet == \A u \in DOMAIN ureq : ureq[u].pc # "done"

\* Buffer.from(JSON.stringify(user)): the content of the published message.
Stringify(user) == [text |-> "object", id |-> user.id, data |-> user.data]

\* The topic exchange copies a message to orders.q when the orders service
\* has declared the queue and the routing key matches its one binding.
Routes(key) == amqp = "ready" /\ key = ROUTING_KEY_USER_CREATED

\* ch.publish(EXCHANGE, key, payload) of the users service, as seen on orders.q
Publish(key, c) ==
  IF Routes(key)
    THEN /\ queue' = Append(queue, c)
         /\ delivered' = delivered + 1
    ELSE UNCHANGED <<queue, delivered>>

\* Variant: the error handler answers 500 whatever was answered before.
UserHandlerRejectsAnswersAgain(u, r, o) ==
  /\ ureq' = [ureq EXCEPT ![u] =
                [r EXCEPT !.pc = "done",
                          !.replies = IF o = "r500" THEN @ + 1 ELSE @,
                          !.status = IF o = "r500" THEN 500 ELSE @]]
  /\ ualive' = (o # "crash")

\* A rejection leaves an async handler of the users service (see
\* RejectionOutcomes); the default error handler of Express 5 answers 500
\* only when nothing has been answered yet.
UserHandlerRejects(u, r, o) ==
  /\ ureq' = [ureq EXCEPT ![u] =
                [r EXCEPT !.pc = "done",
                          !.replies = IF o = "r500" /\ r.replies = 0
                                        THEN 1 ELSE @,
                          !.status = IF o = "r500" /\ r.replies = 0
                                       THEN 500 ELSE @]]
  /\ ualive' = (o # "crash")

\* A body without name or email is answered 400 at once (both handlers).
UserInvalid(u) ==
  /\ ualive /\ UQuiet /\ ureq[u].pc = "idle"
  /\ u > 1 => ureq[u - 1].pc # "idle"
  /\ \E op \in {"create", "update"} :
       ureq' = [ureq EXCEPT ![u] =
                  [@ EXCEPT !.pc = "done", !.op = op, !.replies = @ + 1,
                            !.status = 400]]
  /\ UNCHANGED <<users, ualive, uamqp, conn, tm>>
  /\ UNCHANGED ordersVars

\* POST / with a valid body: an id is drawn and prisma.user.create started.
UserPost(u) ==
  /\ ualive /\ UQuiet /\ ureq[u].pc = "idle"
  /\ u > 1 => ureq[u - 1].pc # "idle"
  /\ \E i \in Ids, d \in Data :
       ureq' = [ureq EXCEPT ![u] =
                  [@ EXCEPT !.pc = "creating", !.op = "create", !.id = i,
                            !.data = d]]
  /\ UNCHANGED <<users, ualive, uamqp, conn, tm>>
  /\ UNCHANGED ordersVars

\* prisma.user.create settles.  On success (the id is new) the event is
\* published when a channel exists (a throwing publish is caught and logged)
\* and 201 is answered.  On failure the catch block evaluates err.code with
\* no err in scope, and the ReferenceError leaves the handler.
PrismaUserCreate(u) ==
  /\ ualive /\ UQuiet /\ ureq[u].pc = "creating"
  /\ LET r == ureq[u] IN
       \/ /\ r.id \notin DOMAIN users
          /\ users' = [i \in (DOMAIN users) \cup {r.id} |->
                         IF i = r.id THEN r.data ELSE users[i]]
          /\ \E sent \in {b \in BOOLEAN : b => uamqp = "ready"} :
               /\ ureq' = [ureq EXCEPT ![u] =
                             [r EXCEPT !.pc = "done", !.committed = TRUE,
                                       !.event = Published(sent, USER_CREATED),
                                       !.replies = @ + 1, !.status = 201]]
               /\ IF sent
                    THEN Publish(USER_CREATED,
                                 Stringify(UserRec(r.id, r.data)))
                    ELSE UNCHANGED <<queue, delivered>>
          /\ UNCHANGED ualive
       \/ /\ \E o \in RejectionOutcomes : UserHandlerRejects(u, r, o)
          /\ UNCHANGED <<users, queue, delivered>>
  /\ UNCHANGED <<alive, amqp, acks, nacks, userCache, breaker, req>>
  /\ UNCHANGED <<uamqp, conn, tm>>

\* PATCH /:id with a valid body: prisma.user.update is started.
UserPatch(u) ==
  /\ ualive /\ UQuiet /\ ureq[u].pc = "idle"
  /\ u > 1 => ureq[u - 1].pc # "idle"
  /\ \E i \in Ids, d \in Data :
       ureq' = [ureq EXCEPT ![u] =
                  [@ EXCEPT !.pc = "updating", !.op = "update", !.id = i,
                            !.data = d]]
  /\ UNCHANGED <<users, ualive, uamqp, conn, tm>>
  /\ UNCHANGED ordersVars

\* prisma.user.update settles.  On success the event is published when a
\* channel exists and 200 is answered; P2025 (no such row) and P2002 are
\* answered 404 and 409 and the handler returns; any other error is answered
\* 500 without a return.  After an answer without return the handler runs on
\* to a second publish block, whose read of 'updated' (a const of the first
\* try block, out of scope here) throws inside its try and is logged, and to
\* a second res.status(200).json(updated), whose read of 'updated' throws
\* outside every try: the ReferenceError leaves the handler.
PrismaUserUpdate(u) ==
  /\ ualive /\ UQuiet /\ ureq[u].pc = "updating"
  /\ LET r == ureq[u] IN
       \/ /\ r.id \in DOMAIN users
          /\ users' = [users EXCEPT ![r.id] = r.data]
          /\ \E sent \in {b \in BOOLEAN : b => uamqp = "ready"} :
               /\ \E o \in RejectionOutcomes :
                    UserHandlerRejects(u,
                      [r EXCEPT !.committed = TRUE,
                                !.event = Published(sent, USER_UPDATED),
                                !.replies = @ + 1, !.status = 200], o)
               /\ IF sent
                    THEN Publish(USER_UPDATED,
                                 Stringify(UserRec(r.id, r.data)))
                    ELSE UNCHANGED <<queue, delivered>>
       \/ /\ \E code \in {c \in {404, 409} :
                            c = 404 => r.id \notin DOMAIN users} :
               ureq' = [ureq EXCEPT ![u] =
                          [r EXCEPT !.pc = "done", !.replies = @ + 1,
                                    !.status = code]]
          /\ UNCHANGED <<users, queue, delivered, ualive>>
       \/ /\ \E o \in RejectionOutcomes :
               UserHandlerRejects(u,
                 [r EXCEPT !.replies = @ + 1, !.status = 500], o)
          /\ UNCHANGED <<users, queue, delivered>>
  /\ UNCHANGED <<alive, amqp, acks, nacks, userCache, breaker, req>>
  /\ UNCHANGED <<uamqp, conn, tm>>

\* The request is over; its task ends and a later request can take its place.
UserFinish(u) ==
  /\ ualive /\ ureq[u].pc = "done"
  /\ ureq' = [ureq EXCEPT ![u] = IdleUReq]
  /\ UNCHANGED <<users, ualive, uamqp, conn, tm>>
  /\ UNCHANGED ordersVars

\* ---- the services after startup ----------------------------------------------
\* connectWithRetry after every attempt failed.
ConnectExhausted ==
  [pc |-> "thrown", retries |-> MAX_RETRIES - 1, attempts |-> MAX_RETRIES,
   err |-> "ECONNREFUSED", delay |-> 0, thrown |-> "ECONNREFUSED"]

\* The two services are separate processes, and a request handler of one
\* never waits for a request handler of the other.  A run follows either the
\* request handlers of the orders service (its startup over, with or without
\* a channel, the cache as InitBreaker has it), or the users service with the
\* broker and the consumer of the orders service behind it.
InitOrdersRequests ==
  /\ alive = TRUE
  /\ \/ /\ amqp = "ready"
        /\ delivered = MaxMsgs /\ acks = MaxMsgs
        /\ userCache = CacheSet(EmptyCache, "u_1", UserRec("u_1", "d1"))
     \/ /\ amqp = "failed"
        /\ delivered = 0 /\ acks = 0
        /\ userCache = EmptyCache
  /\ queue = <<>>
  /\ nacks = 0
  /\ breaker = [state |-> "closed", pendingClose |-> FALSE,
                resetTimer |-> FALSE, fires |-> 0, failures |-> 0]
  /\ req = [t \in Tasks |-> IdleReq]
  /\ OutsideIdle

InitUsersAndConsumer ==
  /\ alive = TRUE
  /\ amqp = "ready"
  /\ queue = <<>>
  /\ delivered = 0
  /\ acks = 0
  /\ nacks = 0
  /\ userCache = EmptyCache
  /\ breaker = [state |-> "closed", pendingClose |-> FALSE,
                resetTimer |-> FALSE, fires |-> 0, failures |-> 0]
  /\ req = [t \in {} |-> IdleReq]
  /\ users = NoUsers
  /\ ureq = [u \in UTasks |-> IdleUReq]
  /\ ualive = TRUE
  /\ \/ uamqp = "ready" /\ conn = ConnectedAtOnce
     \/ uamqp = "failed" /\ conn = ConnectExhausted
  /\ tm = IdleTm

InitServices == InitOrdersRequests \/ InitUsersAndConsumer

NextServices ==
  \/ \E c \in Contents : Deliver(c)
  \/ Consume
  \/ ResetTimeout
  \/ RollWindow
  \/ \E t \in DOMAIN req : PostInvalid(t)
  \/ \E t \in DOMAIN req : PostFire(t)
  \/ \E t \in DOMAIN req : FetchAttempt(t)
  \/ \E t \in DOMAIN req : BackoffWake(t)
  \/ \E t \in DOMAIN req : RespJson(t)
  \/ \E t \in DOMAIN req : AfterFire(t)
  \/ \E t \in DOMAIN req : PrismaCreate(t)
  \/ \E t \in DOMAIN req : Cancel(t)
  \/ \E t \in DOMAIN req : PrismaCancel(t)
  \/ \E t \in DOMAIN req : Finish(t)
  \/ \E u \in DOMAIN ureq : UserInvalid(u)
  \/ \E u \in DOMAIN ureq : UserPost(u)
  \/ \E u \in DOMAIN ureq : PrismaUserCreate(u)
  \/ \E u \in DOMAIN ureq : UserPatch(u)
  \/ \E u \in DOMAIN ureq : PrismaUserUpdate(u)
  \/ \E u \in DOMAIN ureq : UserFinish(u)

SpecServices == InitServices /\ [][NextServices]_vars

\* ---- startup of the users service: createChannel and connectWithRetry --------
\* What a failed amqplib.connect rejects with.
ConnectErrors == {"ECONNREFUSED", "ETIMEDOUT"}

\* Math.floor(Math.random() * 1000)
AmqpJitters == 0..(AMQP_JITTER_MS - 1)

\* Variant: the delay grows by the base delay per attempt.
RetryDelayLinear(retries, jitter) ==
  BASE_RETRY_DELAY_MS * (retries + 1) + jitter

\* delay + jitter, with delay = BASE_RETRY_DELAY_MS * Math.pow(2, retries)
RetryDelay(retries, jitter) == BASE_RETRY_DELAY_MS * 2^retries + jitter

ConnectStart ==
  [pc |-> "connecting", retries |-> 0, attempts |-> 0, err |-> "none",
   delay |-> 0, thrown |-> "none"]

\* await amqplib.connect(url) settles.  A connection is returned at once.  A
\* failure of the attempt with index MAX_RETRIES - 1 is thrown on: it leaves
\* connectWithRetry and createChannel and is caught by the startup IIFE, which
\* logs it and ends, the process running on with amqp = null.  Any earlier
\* failure starts the sleep of delay + jitter.
ConnectAttempt ==
  /\ ualive /\ uamqp = "connecting" /\ conn.pc = "connecting"
  /\ \/ /\ conn' = [conn EXCEPT !.pc = "returned", !.attempts = @ + 1]
        /\ UNCHANGED uamqp
     \/ \E e \in ConnectErrors :
          IF conn.retries = MAX_RETRIES - 1
            THEN /\ conn' = [conn EXCEPT !.pc = "thrown", !.attempts = @ + 1,
                                         !.err = e, !.thrown = e]
                 /\ uamqp' = "failed"
            ELSE /\ \E j \in AmqpJitters :
                      conn' = [conn EXCEPT !.pc = "sleeping",
                                           !.attempts = @ + 1, !.err = e,
                                           !.delay =
                                             RetryDelay(conn.retries, j)]
                 /\ UNCHANGED uamqp
  /\ UNCHANGED <<users, ureq, ualive, tm>>
  /\ UNCHANGED ordersVars

\* The sleep is over: the loop goes to its next round.
ConnectWake ==
  /\ ualive /\ conn.pc = "sleeping"
  /\ conn' = [conn EXCEPT !.pc = "connecting", !.retries = @ + 1,
                          !.err = "none", !.delay = 0]
  /\ UNCHANGED <<users, ureq, ualive, uamqp, tm>>
  /\ UNCHANGED ordersVars

\* createChannel goes on with the connection: conn.createChannel() and
\* ch.assertExchange settle, and the IIFE stores the channel or logs the
\* error.
OpenChannel ==
  /\ ualive /\ uamqp = "connecting" /\ conn.pc = "returned"
  /\ uamqp' \in {"ready", "failed"}
  /\ UNCHANGED <<users, ureq, ualive, conn, tm>>
  /\ UNCHANGED ordersVars

InitConnect ==
  /\ alive = TRUE
  /\ amqp = "connecting"
  /\ queue = <<>>
  /\ delivered = 0
  /\ acks = 0
  /\ nacks = 0
  /\ userCache = EmptyCache
  /\ breaker = [state |-> "closed", pendingClose |-> FALSE,
                resetTimer |-> FALSE, fires |-> 0, failures |-> 0]
  /\ req = [t \in {} |-> IdleReq]
  /\ users = NoUsers
  /\ ureq = NoRequests
  /\ ualive = TRUE
  /\ uamqp = "connecting"
  /\ conn = ConnectStart
  /\ tm = IdleTm

NextConnect ==
  \/ ConnectAttempt
  \/ ConnectWake
  \/ OpenChannel

SpecConnect == InitConnect /\ [][NextConnect]_vars

\* ---- one upstream call on the clock --------------------------------------------
\* breaker.fire(userId) through a CLOSED breaker, followed in milliseconds:
\* opossum arms a timer of breakerOptions.timeout when the call starts, and
\* fetchWithBackoff runs its attempts and sleeps meanwhile.  tm.now is the
\* time since the call started.

\* HTTP_TIMEOUT_MS is read from the environment: the default and a smaller
\* configured value.
ConfiguredTimeouts == {HTTP_TIMEOUT_MS, HTTP_TIMEOUT_MS \div 2}

\* breakerOptions.timeout for a configured HTTP_TIMEOUT_MS
timeoutFor(ms) == ms * (MAX_HTTP_RETRIES + 1)

\* Math.floor(Math.random() * 200)
HttpJitters == 0..(HTTP_JITTER_MS - 1)

\* Variant: the exponent counts the rounds from one.
BackoffDelayFromOne(retries, jitter) ==
  BASE_HTTP_RETRY_DELAY * 2^(retries + 1) + jitter

\* delay + jitter, with delay = BASE_HTTP_RETRY_DELAY * Math.pow(2, retries)
BackoffDelay(retries, jitter) == BASE_HTTP_RETRY_DELAY * 2^retries + jitter

\* How long an attempt can take: the abort comes when the per-attempt timer
\* of ms fires; a response or a transport error comes before that, early or
\* late.
Durations(ms, o) == IF o = "aborted" THEN {ms} ELSE {1, ms - 1}

\* The breaker's timer has elapsed by the end (at) of a wait of the call.
Elapsed(t, at) == t.timedOut \/ at > timeoutFor(t.ms)

\* A new call starts: the loop of fetchWithBackoff begins with retries = 0.
TimedFire ==
  /\ tm.pc \in {"idle", "ended"} /\ tm.calls < MaxTimedCalls
  /\ tm' = [tm EXCEPT !.pc = "fetching", !.calls = @ + 1, !.retries = 0,
                      !.now = 0, !.delay = 0, !.timedOut = FALSE]
  /\ UNCHANGED <<users, ureq, ualive, uamqp, conn>>
  /\ UNCHANGED ordersVars

\* An attempt ends after d ms: fetchWithBackoff returns its response, throws
\* on the last attempt, or starts the sleep of delay + jitter.
TimedAttempt ==
  /\ tm.pc = "fetching"
  /\ \E o \in Outcomes : \E d \in Durations(tm.ms, o) :
       LET t == [tm EXCEPT !.now = @ + d,
                           !.timedOut = Elapsed(tm, tm.now + d)]
       IN  IF Retryable(o) /\ tm.retries # MAX_HTTP_RETRIES - 1
             THEN \E j \in HttpJitters :
                    tm' = [t EXCEPT !.pc = "sleeping",
                                    !.delay = BackoffDelay(tm.retries, j)]
             ELSE tm' = [t EXCEPT !.pc = "ended"]
  /\ UNCHANGED <<users, ureq, ualive, uamqp, conn>>
  /\ UNCHANGED ordersVars

\* The sleep is over: the loop goes to its next round.
TimedWake ==
  /\ tm.pc = "sleeping"
  /\ tm' = [tm EXCEPT !.pc = "fetching", !.retries = @ + 1,
                      !.now = @ + tm.delay, !.delay = 0,
                      !.timedOut = Elapsed(tm, tm.now + tm.delay)]
  /\ UNCHANGED <<users, ureq, ualive, uamqp, conn>>
  /\ UNCHANGED ordersVars

InitTiming ==
  /\ alive = TRUE
  /\ amqp = "connecting"
  /\ queue = <<>>
  /\ delivered = 0
  /\ acks = 0
  /\ nacks = 0
  /\ userCache = EmptyCache
  /\ breaker = [state |-> "closed", pendingClose |-> FALSE,
                resetTimer |-> FALSE, fires |-> 0, failures |-> 0]
  /\ req = [t \in {} |-> IdleReq]
  /\ users = NoUsers
  /\ ureq = NoRequests
  /\ ualive = TRUE
  /\ uamqp = "ready"
  /\ conn = ConnectedAtOnce
  /\ \E ms \in ConfiguredTimeouts : tm = [IdleTm EXCEPT !.ms = ms]

NextTiming ==
  \/ TimedFire
  \/ TimedAttempt
  \/ TimedWake

SpecTiming == InitTiming /\ [][NextTiming]_vars

\* ---- properties --------------------------------------------------------------
\* fetchWithBackoff of request t has used up its attempts: every attempt it
\* made ended in a retryable fault.
Exhausted(t) ==
  /\ req[t].pc = "fired"
  /\ req[t].faults = MAX_HTTP_RETRIES
  /\ req[t].attempts = req[t].faults

\* fire of request t was failed fast by the breaker: no attempt was made.
ShortCircuited(t) ==
  /\ req[t].pc = "fired"
  /\ req[t].via = "fallback"
  /\ req[t].attempts = 0

\* C1: when every attempt of the upstream call failed with a retryable fault
\* and the cache holds an entry for the id, fire has resolved through the
\* fallback with exactly that entry and with no error.
C1_CachedOnExhaustion ==
  \A t \in DOMAIN req :
    Exhausted(t) /\ req[t].userId \in DOMAIN userCache
      => /\ req[t].via = "fallback"
         /\ req[t].user = userCache[req[t].userId]
         /\ req[t].err = "none"

C1_Witness ==
  \E t \in DOMAIN req :
    /\ Exhausted(t) /\ req[t].userId \in DOMAIN userCache /\ acks > 0
    /\ req[t].user = userCache[req[t].userId]

\* C2: when every attempt failed, or the breaker failed the call fast, and the
\* cache has no entry for the id, fire has failed with SERVICE_UNAVAILABLE
\* and has resolved with no value.
C2_UnavailableOnMiss ==
  \A t \in DOMAIN req :
    (Exhausted(t) \/ ShortCircuited(t)) /\ req[t].userId \notin DOMAIN userCache
      => /\ req[t].err = "SERVICE_UNAVAILABLE"
         /\ req[t].user = NoUser

C2_Witness ==
  \E t \in DOMAIN req :
    /\ Exhausted(t) /\ req[t].userId \notin DOMAIN userCache
    /\ req[t].err = "SERVICE_UNAVAILABLE"

\* C3: a create-order request whose fire failed with SERVICE_UNAVAILABLE ends
\* with a 503 response.
C3_Answers503 ==
  \A t \in DOMAIN req :
    req[t].pc = "done" /\ req[t].err = "SERVICE_UNAVAILABLE"
      => req[t].status = 503

\* C4: a step that changes the user cache is a step of the consumer's message
\* handler (it takes the head of the queue and acknowledges it) and touches no
\* request and not the breaker; so no step of the call path writes the cache.
C4_OnlyConsumerWritesCache ==
  [][userCache' # userCache
       => /\ queue # <<>> /\ queue' = Tail(queue)
          /\ acks' = acks + 1
          /\ req' = req /\ breaker' = breaker]_vars

\* A request fetched a fresh user for an id the cache does not hold, and the
\* cache still does not hold it, while the consumer has filled another entry.
C4_Witness ==
  \E t \in DOMAIN req :
    /\ req[t].pc = "fired" /\ req[t].via = "action"
    /\ req[t].user.kind = "user"
    /\ req[t].userId \notin DOMAIN userCache
    /\ userCache # EmptyCache

\* fetchWithBackoff of request t has ended (it returned or threw).
FetchEnded(t) == req[t].pc \in {"json", "fired"} /\ req[t].attempts > 0

\* C5: when fewer than MAX_HTTP_RETRIES retryable faults were followed by a
\* response that is not a fault, fetchWithBackoff returned that response and
\* made faults + 1 attempts; it never ends with fewer faults in another way.
C5_ReturnsFirstSuccess ==
  \A t \in DOMAIN req :
    FetchEnded(t) /\ req[t].faults < MAX_HTTP_RETRIES
      => /\ req[t].resp \in Responses
         /\ ~Retryable(req[t].resp)
         /\ req[t].resp = req[t].last
         /\ req[t].thrown = "none"
         /\ req[t].attempts = req[t].faults + 1

C5_Witness ==
  \E t \in DOMAIN req :
    /\ FetchEnded(t) /\ req[t].faults = MAX_HTTP_RETRIES - 1
    /\ req[t].resp = "r200" /\ req[t].attempts = MAX_HTTP_RETRIES

\* C6: after MAX_HTTP_RETRIES consecutive retryable faults fetchWithBackoff
\* has made exactly MAX_HTTP_RETRIES attempts and has failed without
\* returning a response; it never makes more attempts than that.
C6_ExactlyMaxAttempts ==
  \A t \in DOMAIN req :
    /\ req[t].attempts <= MAX_HTTP_RETRIES
    /\ req[t].faults = MAX_HTTP_RETRIES
         => /\ req[t].attempts = MAX_HTTP_RETRIES
            /\ req[t].pc = "fired"
            /\ req[t].thrown # "none"
            /\ req[t].resp = "none"

C6_Witness ==
  \E t \in DOMAIN req :
    /\ req[t].faults = MAX_HTTP_RETRIES /\ req[t].attempts = MAX_HTTP_RETRIES
    /\ req[t].thrown # "none" /\ req[t].last = "aborted"

\* C7: the error fetchWithBackoff fails with after MAX_HTTP_RETRIES faults is
\* the error of its last attempt.
C7_ThrowsLastError ==
  \A t \in DOMAIN req :
    req[t].thrown # "none" => req[t].thrown = ErrorOf(req[t].last)

ClientStatus == {"r404", "r400"}

\* Request t leaves "idle" by firing the breaker in this step.
Fires(t) == req[t].pc = "idle" /\ req'[t].pc \notin {"idle", "done"}

C8_State ==
  \A t \in DOMAIN req :
    /\ req[t].pc = "fired" /\ req[t].last \in ClientStatus
         => /\ req[t].resp = req[t].last
            /\ req[t].attempts = req[t].faults + 1
            /\ req[t].via = "action"
            /\ req[t].user = ErrMarker(StatusOf(req[t].last))
            /\ req[t].err = "none"
    /\ req[t].pc = "done" /\ req[t].user.kind = "error"
         => /\ req[t].status = req[t].user.status
            /\ ~req[t].order

C8_Step ==
  \A t \in DOMAIN req :
    req[t].pc = "fetching" /\ req'[t].last \in ClientStatus
      => /\ req'[t].pc = "fired"
         /\ req'[t].attempts = req[t].attempts + 1
         /\ breaker'.failures = breaker.failures
         /\ breaker'.fires = breaker.fires
         /\ breaker'.state \in {breaker.state, "closed"}

\* C8: an attempt answered with 404 or 400 is the last attempt of its call
\* (the only one when it is the first outcome): fetchWithBackoff returns the
\* response at once, the breaker counts no failure and runs no fallback, fire
\* resolves with the error marker, and the request is answered with the
\* status of that response.
C8_ClientErrorPassesThrough == []C8_State /\ [][C8_Step]_vars

C8_Witness ==
  \E t \in DOMAIN req :
    /\ req[t].pc = "done" /\ req[t].user = ErrMarker(404)
    /\ req[t].status = 404

\* C9: a failure that brings the rolling failure percentage to the threshold
\* or above leaves the breaker OPEN, and a fire that finds the breaker OPEN
\* goes straight to the fallback without an upstream attempt.
C9_OpenAtThresholdShortCircuits ==
  [][/\ (/\ breaker'.failures = breaker.failures + 1
         /\ breaker'.failures * 100
              >= errorThresholdPercentage * breaker'.fires)
          => breaker'.state = "open"
     /\ \A t \in DOMAIN req :
          breaker.state = "open" /\ Fires(t) => ShortCircuited(t)']_vars

C10_State ==
  breaker.state = "halfOpen"
    => Cardinality(InFlight) = IF breaker.pendingClose THEN 0 ELSE 1

C10_Step ==
  /\ breaker'.state = "halfOpen" /\ breaker.state # "halfOpen"
       => /\ breaker.state = "open" /\ breaker.resetTimer
          /\ breaker'.pendingClose
  /\ \A t \in DOMAIN req :
       /\ breaker.state = "halfOpen" /\ Fires(t)
            => IF breaker.pendingClose
                 THEN /\ req'[t].pc = "fetching"
                      /\ breaker'.state = "halfOpen"
                      /\ ~breaker'.pendingClose
                 ELSE /\ ShortCircuited(t)'
                      /\ breaker'.state = "halfOpen"
       /\ breaker.state = "halfOpen" /\ t \in InFlight /\ req'[t].pc = "fired"
            => IF req'[t].via = "fallback"
                 THEN breaker'.state = "open" /\ breaker'.resetTimer
                 ELSE breaker'.state = "closed" /\ ~breaker'.resetTimer

\* C10: HALF_OPEN is entered only by the reset timer of an OPEN breaker; in
\* HALF_OPEN exactly one call is let through to callUserService and every
\* other fire is failed fast, however many arrive; when the trial fails the
\* breaker is OPEN again with its reset timer armed, and when it succeeds the
\* breaker is CLOSED.
C10_SingleTrial == []C10_State /\ [][C10_Step]_vars

\* The trial is in flight and a second fire has been failed fast meanwhile.
C10_Witness ==
  /\ breaker.state = "halfOpen"
  /\ \E t1, t2 \in DOMAIN req : t1 \in InFlight /\ ShortCircuited(t2)

\* The consume callback has just handled the message at the head of orders.q.
Consumed == queue # <<>> /\ (acks' # acks \/ nacks' # nacks)

\* The user object the consumer reads out of a content that parses.
Payload(c) == [kind |-> "user", id |-> c.id, data |-> c.data]

\* C11: the consumer settles each delivered message exactly once.  A message
\* whose content parses and applies is acked, and the cache entry under the
\* payload's id becomes the payload (every other entry stays); a message
\* whose parse or application fails is nacked without requeue and leaves the
\* cache as it was; either way the consumer stays up for the next message.
C11_State == delivered = acks + nacks + Len(queue)

C11_Step ==
  Consumed =>
    LET c == Head(queue) IN
      /\ queue' = Tail(queue)
      /\ acks' + nacks' = acks + nacks + 1
      /\ alive' = alive /\ amqp' = amqp
      /\ IF c.text = "object"
           THEN /\ acks' = acks + 1
                /\ DOMAIN userCache' = (DOMAIN userCache) \cup {c.id}
                /\ userCache'[c.id] = Payload(c)
                /\ \A i \in (DOMAIN userCache) \ {c.id} :
                     userCache'[i] = userCache[i]
           ELSE /\ nacks' = nacks + 1
                /\ userCache' = userCache

C11_SettlesEachMessageOnce == []C11_State /\ [][C11_Step]_vars

\* A message has been rejected and a later one acked, or the other way
\* round, by a consumer that is still up.
C11_Witness ==
  /\ alive /\ amqp = "ready"
  /\ nacks >= 1 /\ acks >= 1 /\ queue = <<>>
  /\ DOMAIN req = {}

\* C12: consuming a payload a second time leaves the whole cache as the first
\* consumption left it.  The first consumption of a payload that parses puts
\* the payload under its id; consuming it again from any cache that holds it
\* there changes no entry; a payload that does not parse changes no entry
\* either time.
C12_Step ==
  Consumed =>
    LET c == Head(queue) IN
      /\ c.text = "object"
           => c.id \in DOMAIN userCache' /\ userCache'[c.id] = Payload(c)
      /\ (c.text = "object" /\ c.id \in DOMAIN userCache
            /\ userCache[c.id] = Payload(c))
           => userCache' = userCache
      /\ c.text # "object" => userCache' = userCache

C12_ConsumeIsIdempotent == [][C12_Step]_vars

\* The consumer has applied a payload (only the consumer writes the cache of
\* this run) and the same payload is at the head of orders.q again.
C12_Witness ==
  /\ DOMAIN req = {} /\ alive /\ acks >= 1
  /\ queue # <<>> /\ Head(queue).text = "object"
  /\ Head(queue).id \in DOMAIN userCache
  /\ userCache[Head(queue).id] = Payload(Head(queue))

\* The success status of a handler's mutation.
SuccessStatus(op) == IF op = "create" THEN 201 ELSE 200

\* The routing key of a handler's mutation.
KeyOfOrders(r) == IF r.order THEN ORDER_CREATED ELSE ORDER_CANCELLED
KeyOfUsers(r) == IF r.op = "create" THEN USER_CREATED ELSE USER_UPDATED

\* C13: a failed publish (ch.publish throws, or there is no channel) neither
\* undoes nor repeats the committed mutation and does not reach the caller:
\* the handler has answered exactly once, with 201 for a create and 200 for
\* an update or a cancel, and the stored row is the one the request wrote.
C13_PublishFailureStaysLocal ==
  /\ \A t \in DOMAIN req :
       (req[t].pc = "done" /\ (req[t].order \/ req[t].cancelled)
          /\ req[t].event = <<>>)
         => /\ req[t].replies = 1
            /\ req[t].status = SuccessStatus(IF req[t].order THEN "create"
                                                               ELSE "cancel")
            /\ ~(req[t].order /\ req[t].cancelled)
  /\ \A u \in DOMAIN ureq :
       (ureq[u].pc = "done" /\ ureq[u].committed /\ ureq[u].event = <<>>)
         => /\ ureq[u].replies = 1
            /\ ureq[u].status = SuccessStatus(ureq[u].op)
            /\ ureq[u].id \in DOMAIN users
            /\ users[ureq[u].id] = ureq[u].data

\* An update of the users service has committed with no channel to publish
\* on, and its request is over.
C13_Witness ==
  \E u \in DOMAIN ureq :
    /\ ureq[u].pc = "done" /\ ureq[u].op = "update" /\ ureq[u].committed
    /\ uamqp = "failed" /\ ureq[u].event = <<>>
    /\ ureq[u].status = 200

\* C14 as stated: every committed mutation has published exactly one event,
\* with the routing key of its type, and a failed mutation none.
C14_ExactlyOneEvent ==
  /\ \A t \in DOMAIN req :
       req[t].pc = "done" =>
         req[t].event = IF req[t].order \/ req[t].cancelled
                          THEN <<KeyOfOrders(req[t])>> ELSE <<>>
  /\ \A u \in DOMAIN ureq :
       ureq[u].pc = "done" =>
         ureq[u].event = IF ureq[u].committed
                           THEN <<KeyOfUsers(ureq[u])>> ELSE <<>>

\* C14, amended: a committed mutation has published at most one event, with
\* the routing key of its type and only once it had committed; it has
\* published none when its service holds no channel; a mutation that failed
\* or has not settled yet has published none.
C14_AtMostOneEvent ==
  /\ \A t \in DOMAIN req :
       /\ req[t].event \in {<<>>, <<KeyOfOrders(req[t])>>}
       /\ req[t].event # <<>>
            => /\ req[t].pc = "done" /\ amqp = "ready"
               /\ req[t].order \/ req[t].cancelled
  /\ \A u \in DOMAIN ureq :
       /\ ureq[u].event \in {<<>>, <<KeyOfUsers(ureq[u])>>}
       /\ ureq[u].event # <<>>
            => /\ ureq[u].pc = "done" /\ uamqp = "ready"
               /\ ureq[u].committed
               /\ users[ureq[u].id] = ureq[u].data

\* A user has been created and its one user.created event is on orders.q.
C14_Witness ==
  \E u \in DOMAIN ureq :
    /\ ureq[u].pc = "done" /\ ureq[u].op = "create" /\ ureq[u].committed
    /\ ureq[u].event = <<USER_CREATED>>
    /\ queue # <<>>
    /\ queue[Len(queue)] = Stringify(UserRec(ureq[u].id, ureq[u].data))

\* C15: once connectWithRetry has used up its attempts the process is over: no
\* service goes on running without a broker connection.
C15_ExhaustionIsFatal == conn.pc = "thrown" => ~ualive

\* C19: connectWithRetry makes at most 10 attempts and returns at the first
\* that connects; after the failed attempt i (from 0) with attempts left it
\* sleeps 5000 * 2^i plus a jitter in [0, 1000); the 10th failure is thrown
\* on, as the error of that attempt, with no sleep.
C19_State ==
  /\ conn.attempts <= 10
  /\ conn.pc = "returned"
       => conn.attempts = conn.retries + 1 /\ conn.thrown = "none"
  /\ conn.pc = "sleeping"
       => /\ conn.attempts = conn.retries + 1 /\ conn.attempts < 10
          /\ conn.delay >= 5000 * 2^conn.retries
          /\ conn.delay < 5000 * 2^conn.retries + 1000
  /\ conn.pc = "thrown"
       => /\ conn.attempts = 10
          /\ conn.thrown = conn.err /\ conn.err \in ConnectErrors
          /\ conn.delay = 0

C19_Step ==
  /\ conn.pc = "connecting" => conn'.attempts \in {conn.attempts,
                                                   conn.attempts + 1}
  /\ conn.pc # "connecting" => conn'.attempts = conn.attempts
  /\ (conn.pc = "connecting" /\ conn.attempts = 9
        /\ conn'.attempts = 10)
       => conn'.pc \in {"returned", "thrown"}
  /\ conn.pc \in {"returned", "thrown"} => conn' = conn

C19_BoundedConnectRetries == []C19_State /\ [][C19_Step]_vars

\* All ten attempts have failed after nine sleeps.
C19_Witness ==
  /\ conn.pc = "thrown" /\ conn.attempts = 10 /\ conn.retries = 9
  /\ conn.thrown = "ETIMEDOUT"

\* C16: the cache of the orders service catches up with the users service.
\* Stated on the state in which nothing is left to happen for a user id: its
\* latest mutation has committed and published its event, the consumer is up,
\* orders.q is drained and the cache already knows the id.  From there only a
\* new mutation or delivery can change the cache, so the entry must by then
\* equal the stored row.
C16_CacheFollowsUpstream ==
  \A u \in DOMAIN ureq :
    (/\ ureq[u].pc = "done" /\ ureq[u].committed /\ ureq[u].event # <<>>
     /\ alive /\ amqp = "ready" /\ queue = <<>>
     /\ ureq[u].id \in DOMAIN userCache)
      => userCache[ureq[u].id] = UserRec(ureq[u].id, users[ureq[u].id])

\* C17: the breaker never times out a call that is still retrying.  For every
\* configured per-attempt timeout the breaker's timeout is greater than the
\* timeouts of all attempts together, and it has not elapsed by the end of
\* any attempt or backoff sleep of the call.
C17_BreakerOutlastsRetries ==
  /\ timeoutFor(tm.ms) > MAX_HTTP_RETRIES * tm.ms
  /\ ~tm.timedOut

\* C18: the sleep after the failed attempt i (from 0) with attempts left lies
\* in [500 * 2^i, 500 * 2^i + 200); every new call starts again at i = 0; no
\* sleep follows the last attempt.
C18_State ==
  tm.pc = "sleeping"
    => /\ tm.retries < MAX_HTTP_RETRIES - 1
       /\ tm.delay >= 500 * 2^tm.retries
       /\ tm.delay < 500 * 2^tm.retries + 200

C18_Step ==
  /\ tm'.calls # tm.calls => tm'.retries = 0 /\ tm'.pc = "fetching"
  /\ (tm.pc = "fetching" /\ tm'.pc = "sleeping")
       => tm'.retries = tm.retries
  /\ (tm.pc = "sleeping" /\ tm'.pc # "sleeping")
       => tm'.retries = tm.retries + 1 /\ tm'.pc = "fetching"
          /\ tm'.now = tm.now + tm.delay
  /\ (tm.pc = "fetching" /\ tm.retries = MAX_HTTP_RETRIES - 1
        /\ tm'.pc # "fetching")
       => tm'.pc = "ended"

C18_BackoffWindow == []C18_State /\ [][C18_Step]_vars

\* A second call sleeps after its first failed attempt, for the longest time
\* of the first window.
C18_Witness ==
  /\ tm.calls = 2 /\ tm.pc = "sleeping" /\ tm.retries = 0
  /\ tm.delay = 699

\* C20: an order is stored, and order.created published, only for a request
\* that passed the field check and whose breaker.fire(userId) resolved with a
\* user (from upstream or from the cache), not with an error marker; a
\* request that fails the field check is answered without a fire and without
\* an upstream attempt.
C20_State ==
  \A t \in DOMAIN req :
    /\ (req[t].pc = "creating" \/ req[t].order
          \/ ORDER_CREATED \in {req[t].event[k] : k \in DOMAIN req[t].event})
         => /\ req[t].userId \in Ids
            /\ req[t].err = "none"
            /\ req[t].user.kind = "user"
    /\ ORDER_CREATED \in {req[t].event[k] : k \in DOMAIN req[t].event}
         => req[t].order

C20_Step ==
  \A t \in DOMAIN req :
    /\ (req[t].pc = "idle" /\ req'[t].pc = "done")
         => /\ req'[t].status = 400
            /\ breaker' = breaker
            /\ req'[t].attempts = 0 /\ req'[t].user = NoUser
            /\ ~req'[t].order /\ req'[t].event = <<>>
    /\ (req'[t].order /\ ~req[t].order) => req[t].pc = "creating"
    /\ (req'[t].pc = "creating" /\ req[t].pc # "creating")
         => req[t].pc = "fired"

C20_OrderOnlyForResolvedUser == []C20_State /\ [][C20_Step]_vars

\* An order has been stored and published for a user the fire resolved with.
C20_Witness ==
  \E t \in DOMAIN req :
    /\ req[t].pc = "done" /\ req[t].order
    /\ req[t].event = <<ORDER_CREATED>>
    /\ req[t].user.kind = "user" /\ req[t].status = 201

====
